---- MODULE Spec2Model ----
(***************************************************************************)
(* LSC user credentials package generation (src/src/lsc_user.c).           *)
(*                                                                         *)
(* The four public operations lsc_user_keys_create, lsc_user_rpm_recreate, *)
(* lsc_user_deb_recreate and lsc_user_exe_recreate are modelled step by    *)
(* step.  One step is one interaction with the world outside the function: *)
(* mkdtemp, a file write, a file copy, the start of a child process, the   *)
(* termination of the child, a file read, a recursive removal.  The file   *)
(* system, the child processes and the GLib log are the environment; their *)
(* outcomes are chosen nondeterministically.                               *)
(*                                                                         *)
(* Every caller (an element of Procs) has its own copy of the locals of    *)
(* the C functions; the file system is shared.                             *)
(***************************************************************************)
EXTENDS Integers, Sequences, FiniteSets, TLC

(***************************************************************************)
(* Bounds of the model.                                                    *)
(***************************************************************************)
MaxPassLen == 5       \* longest password / passphrase that is enumerated
MaxArtifactLen == 2   \* longest file content an external tool writes
NProcs == 2           \* number of callers the state has room for

Procs == 1..NProcs

(***************************************************************************)
(* Input domains.                                                          *)
(***************************************************************************)
\* Characters of a passphrase: an ordinary character, a double quote, a
\* backslash and a space.
PassChars == {"a", "\"", "\\", " "}

RECURSIVE SeqsUpTo(_, _)
SeqsUpTo(S, n) ==
  IF n = 0 THEN {<<>>}
  ELSE LET shorter == SeqsUpTo(S, n - 1)
       IN  shorter \cup {Append(s, c) : s \in {t \in shorter : Len(t) = n - 1}, c \in S}

\* A C string argument: either the NULL pointer or a sequence of characters.
NullStr == [null |-> TRUE, chars |-> <<>>]
Str(s) == [null |-> FALSE, chars |-> s]

Passphrases == {NullStr} \cup {Str(s) : s \in SeqsUpTo(PassChars, MaxPassLen)}
\* Passwords handed to the installer builder (a sub-domain, the EXE code never
\* looks inside the password).
ExePasswords == {NullStr} \cup {Str(s) : s \in SeqsUpTo({"a", "\""}, MaxPassLen)}
Usernames == {"", "alice"}
PublicKeys == {<<>>, <<"ssh-rsa AAAA">>}
Maintainers == {"ops@example.com"}

\* Contents an external tool can leave in a file (sequences of bytes).
Contents == SeqsUpTo({"x", "y"}, MaxArtifactLen)
\* Captured standard output / standard error of a child.
Outputs == {"", "text"}
\* Wait statuses as waitpid reports them: exit 0, exit 1, killed by
\* signal 9, killed by signal 11 with core dump.
Statuses == {0, 256, 9, 139}

(***************************************************************************)
(* <sys/wait.h>                                                            *)
(***************************************************************************)
WIFEXITED(status) == IF status % 128 = 0 THEN 1 ELSE 0
WEXITSTATUS(status) == (status \div 256) % 256

(***************************************************************************)
(* State.                                                                  *)
(***************************************************************************)
VARIABLES
  pc,            \* position of each caller
  op,            \* operation called: "keys", "rpm", "deb", "exe"
  name,          \* argument name
  password,      \* argument password
  public_key,    \* argument public_key
  maintainer,    \* argument maintainer
  key_dir,       \* local key_dir (0: the template, not expanded)
  pkg_dir,       \* local rpm_dir / deb_dir / exe_dir (0: the template)
  tmpdir,        \* local tmpdir of lsc_user_rpm_create / lsc_user_deb_create
  success,       \* local success of the builder
  ret,           \* local ret; the value returned once pc = "done"
  out,           \* output parameters (*private_key, *rpm and *rpm_size, ...)
  spawned,       \* result of the g_spawn_* call
  exit_status,   \* local exit_status
  standard_out,  \* captured standard output
  standard_err,  \* captured standard error
  dirs,          \* file system: existing scratch directories
  files,         \* file system: path -> content
  nextDir,       \* source of unique directory names for mkdtemp
  child,         \* "none" or "running": the child process of the caller
  events,        \* history: create, write, toolwrite, read, spawn and
                 \* remove events of the caller, each with its directory
  calls,         \* history: external invocations requested by the caller
  log,           \* history: GLib log entries written by the caller
  classified,    \* history: branch taken at the invocation site
  wrote,         \* history: what the external tool wrote to its destination
  rmfail,        \* history: some recursive removal failed
  universe       \* the environment of the run: "full", "small" or
                 \* "faultless"; it never changes

vars == <<pc, op, name, password, public_key, maintainer, key_dir, pkg_dir,
          tmpdir, success, ret, out, spawned, exit_status, standard_out,
          standard_err, dirs, files, nextDir, child, events, calls, log,
          classified, wrote, rmfail, universe>>

inputs == <<op, name, password, public_key, maintainer, universe>>
fsys == <<dirs, files, nextDir>>
spawnvars == <<spawned, exit_status, standard_out, standard_err, child,
               classified, wrote>>

(***************************************************************************)
(* The domains of a run.  In the universe "full" the callers draw their    *)
(* arguments, and the environment its outcomes, from the whole domains     *)
(* above.  The universes "small" and "faultless" have one valid request    *)
(* per operation (and one passphrase that is too short), two wait          *)
(* statuses and two file contents; in "faultless" moreover no library call *)
(* fails (mkdtemp, the file functions, the start of the child, the         *)
(* removal).                                                               *)
(***************************************************************************)
RequestPassphrases ==
  IF universe = "full" THEN Passphrases
  ELSE {Str(<<"a", "a", "a", "a">>), Str(<<"a", "a", "a", "a", "a">>)}
RequestExePasswords ==
  IF universe = "full" THEN ExePasswords
  ELSE {Str(<<"a", "a", "a", "a", "a">>)}
RequestUsernames == IF universe = "full" THEN Usernames ELSE {"alice"}
RequestPublicKeys ==
  IF universe = "full" THEN PublicKeys ELSE {<<"ssh-rsa AAAA">>}
ToolStatuses == IF universe = "full" THEN Statuses ELSE {0, 256}
ToolOutputs == IF universe = "full" THEN Outputs ELSE {""}
ToolContents == IF universe = "full" THEN Contents ELSE {<<"x">>, <<"y">>}
\* Results of a library call that can fail: TRUE where it succeeds
\* (LibraryOk), TRUE where it reports an error (LibraryError).
LibraryOk == IF universe = "faultless" THEN {TRUE} ELSE BOOLEAN
LibraryError == IF universe = "faultless" THEN {FALSE} ELSE BOOLEAN

NoArtifact == [set |-> FALSE, bytes |-> <<>>, size |-> 0]
NotWritten == [written |-> FALSE, bytes |-> <<>>]
Written(c) == [written |-> TRUE, bytes |-> c]

(***************************************************************************)
(* File system.                                                            *)
(***************************************************************************)
Path(d, f) == [dir |-> d, file |-> f]

FileExists(path) == path \in DOMAIN files

FileWrite(fs, path, content) ==
  [x \in DOMAIN fs \cup {path} |-> IF x = path THEN content ELSE fs[x]]

\* gvm_file_remove_recurse on a directory, when it succeeds.
RemoveTree(fs, d) == [x \in {y \in DOMAIN fs : y.dir # d} |-> fs[x]]

Ev(p, e) == [events EXCEPT ![p] = Append(@, e)]
EvSeq(p, es) == [events EXCEPT ![p] = @ \o es]
Log(p, entries) == [log EXCEPT ![p] = @ \o entries]

\* Is s a contiguous part of t?
Contains(t, s) ==
  \E i \in 0..(Len(t) - Len(s)) : \A k \in 1..Len(s) : t[i + k] = s[k]

\* What a "%s" conversion prints for a NULL pointer.
NullText == "(null)"

E(kind, d) == [ev |-> kind, dir |-> d]

InitWith(active, u) ==
  /\ pc = [p \in Procs |-> IF p \in active THEN "idle" ELSE "off"]
  /\ op = [p \in Procs |-> "none"]
  /\ name = [p \in Procs |-> ""]
  /\ password = [p \in Procs |-> NullStr]
  /\ public_key = [p \in Procs |-> <<>>]
  /\ maintainer = [p \in Procs |-> ""]
  /\ key_dir = [p \in Procs |-> 0]
  /\ pkg_dir = [p \in Procs |-> 0]
  /\ tmpdir = [p \in Procs |-> 0]
  /\ success = [p \in Procs |-> TRUE]
  /\ ret = [p \in Procs |-> -1]
  /\ out = [p \in Procs |-> NoArtifact]
  /\ spawned = [p \in Procs |-> FALSE]
  /\ exit_status = [p \in Procs |-> 0]
  /\ standard_out = [p \in Procs |-> NullText]
  /\ standard_err = [p \in Procs |-> NullText]
  /\ dirs = {}
  /\ files = << >>
  /\ nextDir = 1
  /\ child = [p \in Procs |-> "none"]
  /\ events = [p \in Procs |-> <<>>]
  /\ calls = [p \in Procs |-> <<>>]
  /\ log = [p \in Procs |-> <<>>]
  /\ classified = [p \in Procs |-> "none"]
  /\ wrote = [p \in Procs |-> NotWritten]
  /\ rmfail = [p \in Procs |-> FALSE]
  /\ universe = u

\* One caller; every request and every behaviour of the environment.
Init == InitWith({1}, "full")

(***************************************************************************)
(* Steps shared by the operations.                                         *)
(***************************************************************************)
\* Faulty variant: the name is made from a clock that is too coarse, two
\* calls in a row get the same name.
mkdtemp_Coarse == (nextDir \div 2) + 1

\* The name of the directory that mkdtemp makes from a template: a name
\* that no directory has had.
mkdtemp == nextDir

\* The operation returns: its locals go out of scope, ret is the result.
Return(p, r) ==
  /\ pc' = [pc EXCEPT ![p] = "done"]
  /\ ret' = [ret EXCEPT ![p] = r]

\* gvm_file_remove_recurse (d) and its result: 0 when the tree was
\* removed, -1 when it was not.
RemoveRecurse(p, d, ok) ==
  /\ dirs' = IF ok THEN dirs \ {d} ELSE dirs
  /\ files' = IF ok THEN RemoveTree(files, d) ELSE files
  /\ rmfail' = [rmfail EXCEPT ![p] = @ \/ ~ok]
  /\ events' = Ev(p, E("remove", d))
  /\ UNCHANGED nextDir

\* Faulty variant: a removal that fails makes the operation fail.
ReturnAfterRemoval_Checked(r, removal) == IF removal # 0 THEN -1 ELSE r

\* The value returned after the last gvm_file_remove_recurse of an
\* operation, whose result removal is discarded.
ReturnAfterRemoval(r, removal) == r

\* g_file_get_contents (path, &contents, &length, &error): the output
\* parameters are set only when no error is reported.
g_file_get_contents(path, ioerr) ==
  IF FileExists(path) /\ ~ioerr
  THEN [set |-> TRUE, bytes |-> files[path], size |-> Len(files[path])]
  ELSE NoArtifact

(***************************************************************************)
(* Key creation: create_ssh_key and lsc_user_keys_create.                  *)
(***************************************************************************)
Comment == <<"Key", " ", "generated", " ", "by", " ", "GVM">>

key_path(p) == Path(key_dir[p], <<"key">>)
KeyPathText(p) == <<"/tmp/openvas_key_", ToString(key_dir[p]), "/key">>

\* The command line that create_ssh_key concatenates.
KeygenCommand(privpath, comment, passphrase) ==
  <<"ssh-keygen", " ", "-t", " ", "rsa", " ", "-f", " ">> \o privpath
    \o <<" ", "-C", " ", "\"">> \o comment
    \o <<"\"", " ", "-P", " ", "\"">> \o passphrase \o <<"\"">>

\* The quoting state in which the tokenizer of g_shell_parse_argv, which
\* g_spawn_command_line_sync applies to the command line, ends: "" when
\* no quote is open.  current_quote and quoted are the tokenizer's locals;
\* quoted counts the consecutive backslashes modulo 2.
RECURSIVE ShellScan(_, _, _)
ShellScan(current_quote, quoted, line) ==
  IF line = <<>> THEN current_quote
  ELSE IF current_quote = "\\"
       THEN ShellScan("", Head(line) = "\\" /\ ~quoted, Tail(line))
  ELSE IF current_quote = "\""
       THEN IF quoted
            THEN ShellScan("\"", FALSE, Tail(line))
            ELSE IF Head(line) = "\""
                 THEN ShellScan("", FALSE, Tail(line))
                 ELSE ShellScan("\"", Head(line) = "\\", Tail(line))
  ELSE IF Head(line) = "\"" \/ Head(line) = "\\"
       THEN ShellScan(Head(line), Head(line) = "\\" /\ ~quoted, Tail(line))
       ELSE ShellScan("", FALSE, Tail(line))

ShellQuoteState(line) == ShellScan("", FALSE, line)

\* tokenize_command_line of g_shell_parse_argv.  current_quote, quoted,
\* current_token (empty: no token) and retval (the tokens delimited so far)
\* are the tokenizer's locals; the result is their value at the end of the
\* line.  The characters of the model are the double quote, the backslash,
\* the space and ordinary text.
RECURSIVE ShellTokenize(_, _, _, _, _)
ShellTokenize(current_quote, quoted, current_token, retval, line) ==
  IF line = <<>>
  THEN [current_quote |-> current_quote, current_token |-> current_token,
        retval |-> retval]
  ELSE IF current_quote = "\\"
       THEN ShellTokenize("", Head(line) = "\\" /\ ~quoted,
                          current_token \o <<"\\", Head(line)>>,
                          retval, Tail(line))
  ELSE IF current_quote = "\""
       THEN ShellTokenize(IF Head(line) = "\"" /\ ~quoted THEN "" ELSE "\"",
                          Head(line) = "\\" /\ ~quoted,
                          Append(current_token, Head(line)),
                          retval, Tail(line))
  ELSE IF Head(line) = " "
       THEN ShellTokenize("", FALSE, <<>>,
                          IF current_token # <<>>
                          THEN Append(retval, current_token) ELSE retval,
                          Tail(line))
  ELSE IF Head(line) = "\""
       THEN ShellTokenize("\"", FALSE, Append(current_token, Head(line)),
                          retval, Tail(line))
  ELSE IF Head(line) = "\\"
       THEN ShellTokenize("\\", ~quoted, current_token, retval, Tail(line))
  ELSE ShellTokenize("", FALSE, Append(current_token, Head(line)), retval,
                     Tail(line))

\* g_shell_unquote of one token; in_quotes: inside a double-quoted part.
RECURSIVE g_shell_unquote(_, _)
g_shell_unquote(in_quotes, token) ==
  IF token = <<>> THEN <<>>
  ELSE IF ~in_quotes
       THEN IF Head(token) = "\\"
            THEN IF Len(token) = 1 THEN <<>>
                 ELSE <<token[2]>> \o g_shell_unquote(FALSE, Tail(Tail(token)))
            ELSE IF Head(token) = "\""
                 THEN g_shell_unquote(TRUE, Tail(token))
                 ELSE <<Head(token)>> \o g_shell_unquote(FALSE, Tail(token))
  ELSE IF Head(token) = "\""
       THEN g_shell_unquote(FALSE, Tail(token))
  ELSE IF Head(token) = "\\" /\ Len(token) > 1 /\ token[2] \in {"\"", "\\"}
       THEN <<token[2]>> \o g_shell_unquote(TRUE, Tail(Tail(token)))
  ELSE <<Head(token)>> \o g_shell_unquote(TRUE, Tail(token))

\* g_shell_parse_argv: the argument vector of a command line, or an error.
g_shell_parse_argv(line) ==
  LET st == ShellTokenize("", FALSE, <<>>, <<>>, line)
      tokens == IF st.current_token # <<>>
                THEN Append(st.retval, st.current_token) ELSE st.retval
  IN  IF st.current_quote # ""
      THEN [error |-> TRUE, argv |-> <<>>]
      ELSE [error |-> FALSE,
            argv |-> [i \in 1..Len(tokens) |-> g_shell_unquote(FALSE, tokens[i])]]

\* The GError message of a command line that does not parse.
ShellErrorText(line) ==
  <<"Text ended before matching quote was found for ", ShellQuoteState(line),
    ". (The text was '">> \o line \o <<"')">>
ExecErrorText == <<"Failed to execute child process">>

\* Faulty variant: the length test off by one.
PassphraseRejected_OffByOne(passphrase) ==
  passphrase.null \/ Len(passphrase.chars) < 4

PassphraseRejected(passphrase) ==
  passphrase.null \/ Len(passphrase.chars) < 5

create_ssh_key_failed(sp, status) ==
  (sp = FALSE) \/ (WIFEXITED(status) = 0) \/ (WEXITSTATUS(status) # 0)

\* The g_debug calls of the failure branch of create_ssh_key.
KeygenFailureLog(haserr, errtext, status, so, se) ==
  << IF haserr
     THEN <<"create_ssh_key: failed to create private key: ">> \o errtext
     ELSE <<"create_ssh_key: failed to create private key">>,
     <<"create_ssh_key: key-gen failed with ", ToString(status), " (WIF ",
       ToString(WIFEXITED(status)), ", WEX ", ToString(WEXITSTATUS(status)),
       ")">>,
     <<"create_ssh_key: stdout: ", so>>,
     <<"create_ssh_key: stderr: ", se>> >>

\* Faulty variant: a failed key generation is tried again.
lsc_user_keys_create_next_Retry(create_result) ==
  IF create_result # 0 THEN "ssh_key_spawn" ELSE "keys_read"

\* Where lsc_user_keys_create continues when create_ssh_key has returned.
lsc_user_keys_create_next(create_result) ==
  IF create_result # 0 THEN "keys_free_exit" ELSE "keys_read"

lsc_user_keys_create_call(p) ==
  /\ pc[p] = "idle"
  /\ \E pw \in RequestPassphrases :
       /\ op' = [op EXCEPT ![p] = "keys"]
       /\ password' = [password EXCEPT ![p] = pw]
  /\ pc' = [pc EXCEPT ![p] = "keys_mkdtemp"]
  /\ UNCHANGED <<universe, name, public_key, maintainer, key_dir, pkg_dir,
                 tmpdir, success, ret, out, fsys, spawnvars, events, calls,
                 log, rmfail>>

lsc_user_keys_create_mkdtemp(p) ==
  /\ pc[p] = "keys_mkdtemp"
  /\ \E ok \in LibraryOk :
       IF ok
       THEN /\ key_dir' = [key_dir EXCEPT ![p] = mkdtemp]
            /\ dirs' = dirs \cup {mkdtemp}
            /\ nextDir' = nextDir + 1
            /\ events' = Ev(p, E("create", mkdtemp))
            /\ pc' = [pc EXCEPT ![p] = "ssh_key_check"]
            /\ UNCHANGED ret
       ELSE /\ Return(p, -1)
            /\ UNCHANGED <<key_dir, dirs, nextDir, events>>
  /\ UNCHANGED <<inputs, pkg_dir, tmpdir, success, out, files, spawnvars,
                 calls, log, rmfail>>

\* create_ssh_key up to the g_debug of the command.  The comment is the
\* literal of the caller and the directory of privpath is the directory that
\* mkdtemp has just made, so g_mkdir_with_parents returns 0.
create_ssh_key_check(p) ==
  /\ pc[p] = "ssh_key_check"
  /\ IF PassphraseRejected(password[p])
     THEN /\ log' = Log(p, << <<"create_ssh_key: password must be longer than 4 characters">> >>)
          /\ pc' = [pc EXCEPT ![p] = "keys_free_exit"]
     ELSE /\ log' = Log(p, << <<"command: ssh-keygen -t rsa -f ">> \o KeyPathText(p)
                               \o <<" -C \"">> \o Comment
                               \o <<"\" -P \"********\"">> >>)
          /\ pc' = [pc EXCEPT ![p] = "ssh_key_spawn"]
  /\ UNCHANGED <<inputs, key_dir, pkg_dir, tmpdir, success, ret, out, fsys,
                 spawnvars, events, calls, rmfail>>

\* g_spawn_command_line_sync until the child runs, and the failure branch
\* when it reports an error.
create_ssh_key_spawn(p) ==
  /\ pc[p] = "ssh_key_spawn"
  /\ LET command == KeygenCommand(KeyPathText(p), Comment, password[p].chars)
     IN  /\ calls' = [calls EXCEPT ![p] =
                        Append(@, [site |-> "create_ssh_key", cwd |-> 0,
                                   argv |-> g_shell_parse_argv(command).argv])]
         /\ events' = Ev(p, E("spawn", key_dir[p]))
         /\ \E started \in LibraryOk :
              IF ~g_shell_parse_argv(command).error /\ started
              THEN /\ child' = [child EXCEPT ![p] = "running"]
                   /\ pc' = [pc EXCEPT ![p] = "ssh_key_wait"]
                   /\ UNCHANGED <<spawned, classified, log>>
              ELSE /\ spawned' = [spawned EXCEPT ![p] = FALSE]
                   /\ classified' = [classified EXCEPT ![p] =
                        IF create_ssh_key_failed(FALSE, exit_status[p])
                        THEN "failure" ELSE "success"]
                   /\ log' = Log(p, KeygenFailureLog(TRUE,
                                   IF g_shell_parse_argv(command).error
                                   THEN ShellErrorText(command)
                                   ELSE ExecErrorText,
                                   exit_status[p], standard_out[p],
                                   standard_err[p]))
                   /\ pc' = [pc EXCEPT ![p] = lsc_user_keys_create_next(-1)]
                   /\ UNCHANGED child
  /\ UNCHANGED <<inputs, key_dir, pkg_dir, tmpdir, success, ret, out, fsys,
                 exit_status, standard_out, standard_err, wrote, rmfail>>

\* The key generator terminates; g_spawn_command_line_sync returns TRUE and
\* create_ssh_key classifies the wait status.
create_ssh_key_wait(p) ==
  /\ pc[p] = "ssh_key_wait"
  /\ child[p] = "running"
  /\ \E status \in ToolStatuses, so \in ToolOutputs,
        se \in ToolOutputs,
        w \in {NotWritten} \cup {Written(c) : c \in ToolContents} :
       /\ child' = [child EXCEPT ![p] = "none"]
       /\ spawned' = [spawned EXCEPT ![p] = TRUE]
       /\ exit_status' = [exit_status EXCEPT ![p] = status]
       /\ standard_out' = [standard_out EXCEPT ![p] = so]
       /\ standard_err' = [standard_err EXCEPT ![p] = se]
       /\ wrote' = [wrote EXCEPT ![p] = w]
       /\ files' = IF w.written
                   THEN FileWrite(FileWrite(files, key_path(p), w.bytes),
                                  Path(key_dir[p], <<"key", ".pub">>), <<"pub">>)
                   ELSE files
       /\ events' = IF w.written THEN Ev(p, E("toolwrite", key_path(p).dir))
                    ELSE events
       /\ IF create_ssh_key_failed(TRUE, status)
          THEN /\ classified' = [classified EXCEPT ![p] = "failure"]
               /\ log' = Log(p, KeygenFailureLog(FALSE, <<>>, status, so, se))
               /\ pc' = [pc EXCEPT ![p] = lsc_user_keys_create_next(-1)]
          ELSE /\ classified' = [classified EXCEPT ![p] = "success"]
               /\ pc' = [pc EXCEPT ![p] = lsc_user_keys_create_next(0)]
               /\ UNCHANGED log
  /\ UNCHANGED <<inputs, key_dir, pkg_dir, tmpdir, success, ret, out, dirs,
                 nextDir, calls, rmfail>>

\* Faulty variant: the error of g_file_get_contents is not checked.
lsc_user_keys_create_read_Unchecked(p) ==
  /\ pc[p] = "keys_read"
  /\ \E ioerr \in LibraryError :
       LET r == g_file_get_contents(key_path(p), ioerr)
       IN  /\ out' = [out EXCEPT ![p] = IF r.set THEN r ELSE @]
           /\ ret' = [ret EXCEPT ![p] = 0]
  /\ events' = Ev(p, E("read", key_path(p).dir))
  /\ pc' = [pc EXCEPT ![p] = "keys_free_exit"]
  /\ UNCHANGED <<inputs, key_dir, pkg_dir, tmpdir, success, fsys, spawnvars,
                 calls, log, rmfail>>

\* g_file_get_contents (key_path, private_key, &length, &error) and ret = 0.
lsc_user_keys_create_read(p) ==
  /\ pc[p] = "keys_read"
  /\ \E ioerr \in LibraryError :
       LET r == g_file_get_contents(key_path(p), ioerr)
       IN  /\ out' = [out EXCEPT ![p] = IF r.set THEN r ELSE @]
           /\ ret' = [ret EXCEPT ![p] = IF r.set THEN 0 ELSE @]
  /\ events' = Ev(p, E("read", key_path(p).dir))
  /\ pc' = [pc EXCEPT ![p] = "keys_free_exit"]
  /\ UNCHANGED <<inputs, key_dir, pkg_dir, tmpdir, success, fsys, spawnvars,
                 calls, log, rmfail>>

lsc_user_keys_create_free_exit(p) ==
  /\ pc[p] = "keys_free_exit"
  /\ \E ok \in LibraryOk :
       /\ RemoveRecurse(p, key_dir[p], ok)
       /\ Return(p, ReturnAfterRemoval(ret[p], IF ok THEN 0 ELSE -1))
  /\ UNCHANGED <<inputs, key_dir, pkg_dir, tmpdir, success, out, spawnvars,
                 calls, log>>

lsc_user_keys_create(p) ==
  \/ lsc_user_keys_create_call(p)
  \/ lsc_user_keys_create_mkdtemp(p)
  \/ create_ssh_key_check(p)
  \/ create_ssh_key_spawn(p)
  \/ create_ssh_key_wait(p)
  \/ lsc_user_keys_create_read(p)
  \/ lsc_user_keys_create_free_exit(p)

(***************************************************************************)
(* RPM and DEB package generation.  lsc_user_deb_create and                *)
(* lsc_user_deb_recreate repeat lsc_user_rpm_create and                    *)
(* lsc_user_rpm_recreate statement by statement; they differ in the names  *)
(* of the directories, of the script and of the package, and in the        *)
(* maintainer argument.  The steps below are those of both, op[p] selects  *)
(* the names.                                                              *)
(***************************************************************************)
public_key_path(p) == Path(key_dir[p], <<"key.pub">>)
PublicKeyPathText(p) == <<"/tmp/key_", ToString(key_dir[p]), "/key.pub">>

rpm_path(p) == Path(pkg_dir[p], <<"p.rpm">>)
deb_path(p) == Path(pkg_dir[p], <<"p.deb">>)
pkg_path(p) == IF op[p] = "rpm" THEN rpm_path(p) ELSE deb_path(p)
PkgPathText(p) ==
  IF op[p] = "rpm" THEN <<"/tmp/rpm_", ToString(pkg_dir[p]), "/p.rpm">>
  ELSE <<"/tmp/deb_", ToString(pkg_dir[p]), "/p.deb">>

TmpdirText(p) ==
  IF op[p] = "rpm" THEN <<"/tmp/lsc_user_rpm_create_", ToString(tmpdir[p])>>
  ELSE <<"/tmp/lsc_user_deb_create_", ToString(tmpdir[p])>>
new_pubkey_filename(p) == Path(tmpdir[p], <<name[p], ".pub">>)
NewPubkeyText(p) == TmpdirText(p) \o <<"/", name[p], ".pub">>

\* Faulty variant: the destination path and the staged key path change
\* places.
rpm_cmd_PathsSwapped(p) ==
  << <<"GVM_DATA_DIR", "/", "gvm-lsc-rpm-creator.sh">>, <<name[p]>>,
     PkgPathText(p), TmpdirText(p), NewPubkeyText(p) >>

\* The argument vectors of the two packaging scripts.
rpm_cmd(p) ==
  << <<"GVM_DATA_DIR", "/", "gvm-lsc-rpm-creator.sh">>, <<name[p]>>,
     NewPubkeyText(p), TmpdirText(p), PkgPathText(p) >>
deb_cmd(p) ==
  << <<"GVM_DATA_DIR", "/", "gvm-lsc-deb-creator.sh">>, <<name[p]>>,
     NewPubkeyText(p), TmpdirText(p), PkgPathText(p), <<maintainer[p]>> >>
pkg_cmd(p) == IF op[p] = "rpm" THEN rpm_cmd(p) ELSE deb_cmd(p)

\* Faulty variant: the WIFEXITED test is missing.
lsc_user_rpm_create_failed_NoWifexited(sp, status) ==
  (sp = FALSE) \/ (WEXITSTATUS(status) # 0)

lsc_user_rpm_create_failed(sp, status) ==
  (sp = FALSE) \/ (WIFEXITED(status) = 0) \/ (WEXITSTATUS(status) # 0)
lsc_user_deb_create_failed(sp, status) ==
  (sp = FALSE) \/ (WIFEXITED(status) = 0) \/ (WEXITSTATUS(status) # 0)
pkg_create_failed(p, sp, status) ==
  IF op[p] = "rpm" THEN lsc_user_rpm_create_failed(sp, status)
  ELSE lsc_user_deb_create_failed(sp, status)

KindText(p) == IF op[p] = "rpm" THEN "RPM" ELSE "DEB"
CreateName(p) ==
  IF op[p] = "rpm" THEN "lsc_user_rpm_create" ELSE "lsc_user_deb_create"
RecreateName(p) ==
  IF op[p] = "rpm" THEN "lsc_user_rpm_recreate" ELSE "lsc_user_deb_recreate"

\* The arguments of a command as the "%s %s ..." of g_debug prints them.
RECURSIVE JoinArgs(_)
JoinArgs(argv) ==
  IF argv = <<>> THEN <<>>
  ELSE IF Len(argv) = 1 THEN Head(argv)
  ELSE Head(argv) \o <<" ">> \o JoinArgs(Tail(argv))

\* The g_debug before g_spawn_sync in the builders.
PkgSpawnLog(p) ==
  << <<CreateName(p), ": Spawning in ">> \o TmpdirText(p) \o <<": ">>
       \o JoinArgs(pkg_cmd(p)) >>

\* The g_debug calls of the failure branch of the builders.
PkgFailureLog(p, status, so, se) ==
  << <<CreateName(p), ": failed to create the ", op[p], ": ", ToString(status),
       " (WIF ", ToString(WIFEXITED(status)), ", WEX ",
       ToString(WEXITSTATUS(status)), ")">>,
     <<CreateName(p), ": stdout: ", so>>,
     <<CreateName(p), ": stderr: ", se>> >>

\* Faulty variant: the label of the other cleanup block.
AfterPkgMkdtempFailure_RmExit == "rm_exit"

\* Faulty variant: the operation starts over with a new key directory.
AfterPkgMkdtempFailure_Retry == "pkg_mkdtemp_key"

\* Where the recreate operation continues when mkdtemp of the package
\* directory fails.
AfterPkgMkdtempFailure == "free_exit"

\* Faulty variant: the builder removes the directory of its destination.
create_remove_dir_Destination(p) == pkg_dir[p]

\* The directory that the builder removes before it returns.
create_remove_dir(p) == tmpdir[p]

\* Faulty variant: the builder goes to its removal of tmpdir.
lsc_user_pkg_create_mkdtemp_failed_Remove == "create_remove"

\* Where the operation continues when mkdtemp of the builder's directory
\* fails: the builder returns FALSE at once and the caller goes to rm_exit.
lsc_user_pkg_create_mkdtemp_failed == "rm_exit"

\* Where the recreate operation continues when the builder has returned.
lsc_user_pkg_recreate_next(builder_result) ==
  IF builder_result = FALSE THEN "rm_exit" ELSE "pkg_read"

\* Faulty variant: the result of the removal is not looked at.
create_remove_failed_Ignored(r, succ) == FALSE

\* The test after gvm_file_remove_recurse (tmpdir) in the builders; r is the
\* result of the removal.
create_remove_failed(r, succ) == r # 0 /\ succ = TRUE

lsc_user_rpm_recreate_call(p) ==
  /\ pc[p] = "idle"
  /\ \E n \in RequestUsernames, k \in RequestPublicKeys :
       /\ op' = [op EXCEPT ![p] = "rpm"]
       /\ name' = [name EXCEPT ![p] = n]
       /\ public_key' = [public_key EXCEPT ![p] = k]
  /\ pc' = [pc EXCEPT ![p] = "pkg_mkdtemp_key"]
  /\ UNCHANGED <<universe, password, maintainer, key_dir, pkg_dir, tmpdir,
                 success, ret, out, fsys, spawnvars, events, calls, log,
                 rmfail>>

lsc_user_deb_recreate_call(p) ==
  /\ pc[p] = "idle"
  /\ \E n \in RequestUsernames, k \in RequestPublicKeys, m \in Maintainers :
       /\ op' = [op EXCEPT ![p] = "deb"]
       /\ name' = [name EXCEPT ![p] = n]
       /\ public_key' = [public_key EXCEPT ![p] = k]
       /\ maintainer' = [maintainer EXCEPT ![p] = m]
  /\ pc' = [pc EXCEPT ![p] = "pkg_mkdtemp_key"]
  /\ UNCHANGED <<universe, password, key_dir, pkg_dir, tmpdir, success, ret,
                 out, fsys, spawnvars, events, calls, log, rmfail>>

\* mkdtemp (key_dir)
lsc_user_pkg_recreate_mkdtemp_key(p) ==
  /\ pc[p] = "pkg_mkdtemp_key"
  /\ \E ok \in LibraryOk :
       IF ok
       THEN /\ key_dir' = [key_dir EXCEPT ![p] = mkdtemp]
            /\ dirs' = dirs \cup {mkdtemp}
            /\ nextDir' = nextDir + 1
            /\ events' = Ev(p, E("create", mkdtemp))
            /\ pc' = [pc EXCEPT ![p] = "pkg_write_key"]
            /\ UNCHANGED ret
       ELSE /\ Return(p, -1)
            /\ UNCHANGED <<key_dir, dirs, nextDir, events>>
  /\ UNCHANGED <<inputs, pkg_dir, tmpdir, success, out, files, spawnvars,
                 calls, log, rmfail>>

\* g_file_set_contents (public_key_path, public_key, ...)
lsc_user_pkg_recreate_write_key(p) ==
  /\ pc[p] = "pkg_write_key"
  /\ events' = Ev(p, E("write", key_dir[p]))
  /\ \E error \in LibraryError :
       IF error
       THEN /\ pc' = [pc EXCEPT ![p] = "free_exit"]
            /\ UNCHANGED files
       ELSE /\ files' = FileWrite(files, public_key_path(p), public_key[p])
            /\ pc' = [pc EXCEPT ![p] = "pkg_mkdtemp"]
  /\ UNCHANGED <<inputs, key_dir, pkg_dir, tmpdir, success, ret, out, dirs,
                 nextDir, spawnvars, calls, log, rmfail>>

\* mkdtemp (rpm_dir) and the g_debug of rpm_path
lsc_user_pkg_recreate_mkdtemp(p) ==
  /\ pc[p] = "pkg_mkdtemp"
  /\ \E ok \in LibraryOk :
       IF ok
       THEN /\ pkg_dir' = [pkg_dir EXCEPT ![p] = mkdtemp]
            /\ dirs' = dirs \cup {mkdtemp}
            /\ nextDir' = nextDir + 1
            /\ events' = Ev(p, E("create", mkdtemp))
            /\ log' = Log(p, << <<RecreateName(p), ": ", op[p], "_path: ",
                                  "/tmp/", op[p], "_", ToString(mkdtemp),
                                  "/p.", op[p]>> >>)
            /\ pc' = [pc EXCEPT ![p] = "create_mkdtemp"]
       ELSE /\ pc' = [pc EXCEPT ![p] = AfterPkgMkdtempFailure]
            /\ UNCHANGED <<pkg_dir, dirs, nextDir, events, log>>
  /\ UNCHANGED <<inputs, key_dir, tmpdir, success, ret, out, files,
                 spawnvars, calls, rmfail>>

\* lsc_user_rpm_create: mkdtemp (tmpdir)
lsc_user_pkg_create_mkdtemp(p) ==
  /\ pc[p] = "create_mkdtemp"
  /\ \E ok \in LibraryOk :
       IF ok
       THEN /\ tmpdir' = [tmpdir EXCEPT ![p] = mkdtemp]
            /\ dirs' = dirs \cup {mkdtemp}
            /\ nextDir' = nextDir + 1
            /\ events' = Ev(p, E("create", mkdtemp))
            /\ log' = Log(p, << <<CreateName(p), ": create temporary directory">>,
                                <<CreateName(p), ": temporary directory: ",
                                  "/tmp/", CreateName(p), "_", ToString(mkdtemp)>> >>)
            /\ pc' = [pc EXCEPT ![p] = "create_copy"]
       ELSE /\ log' = Log(p, << <<CreateName(p), ": create temporary directory">> >>)
            /\ pc' = [pc EXCEPT ![p] = lsc_user_pkg_create_mkdtemp_failed]
            /\ UNCHANGED <<tmpdir, dirs, nextDir, events>>
  /\ UNCHANGED <<inputs, key_dir, pkg_dir, success, ret, out, files,
                 spawnvars, calls, rmfail>>

\* lsc_user_rpm_create: gvm_file_copy (public_key_path, new_pubkey_filename);
\* when it fails the builder returns FALSE at once.
lsc_user_pkg_create_copy(p) ==
  /\ pc[p] = "create_copy"
  /\ events' = EvSeq(p, <<E("read", key_dir[p]), E("write", tmpdir[p])>>)
  /\ \E copied \in LibraryOk :
       IF copied
       THEN /\ files' = FileWrite(files, new_pubkey_filename(p),
                                  files[public_key_path(p)])
            /\ log' = Log(p, << <<CreateName(p), ": copy key to temporary directory">>,
                                <<CreateName(p), ": Attempting ", KindText(p), " build">> >>)
            /\ pc' = [pc EXCEPT ![p] = "create_spawn"]
       ELSE /\ log' = Log(p, << <<CreateName(p), ": copy key to temporary directory">>,
                                <<CreateName(p), ": failed to copy key file ">>
                                  \o PublicKeyPathText(p) \o <<" to ">>
                                  \o NewPubkeyText(p) >>)
            /\ pc' = [pc EXCEPT ![p] = "rm_exit"]
            /\ UNCHANGED files
  /\ UNCHANGED <<inputs, key_dir, pkg_dir, tmpdir, success, ret, out, dirs,
                 nextDir, spawnvars, calls, rmfail>>

\* lsc_user_rpm_create: g_spawn_sync (tmpdir, cmd, ...) until the child runs,
\* and the failure branch when the spawn fails.  exit_status is not
\* initialised, the failure branch logs whatever it holds.
lsc_user_pkg_create_spawn(p) ==
  /\ pc[p] = "create_spawn"
  /\ calls' = [calls EXCEPT ![p] =
                 Append(@, [site |-> CreateName(p), cwd |-> tmpdir[p],
                            argv |-> pkg_cmd(p)])]
  /\ events' = EvSeq(p, <<E("spawn", tmpdir[p]), E("spawn", pkg_dir[p])>>)
  /\ \E started \in LibraryOk :
       IF started
       THEN /\ child' = [child EXCEPT ![p] = "running"]
            /\ log' = Log(p, PkgSpawnLog(p))
            /\ pc' = [pc EXCEPT ![p] = "create_wait"]
            /\ UNCHANGED <<spawned, exit_status, classified, success>>
       ELSE \E garbage \in ToolStatuses :
            /\ spawned' = [spawned EXCEPT ![p] = FALSE]
            /\ exit_status' = [exit_status EXCEPT ![p] = garbage]
            /\ classified' = [classified EXCEPT ![p] =
                 IF pkg_create_failed(p, FALSE, garbage)
                 THEN "failure" ELSE "success"]
            /\ success' = [success EXCEPT ![p] =
                 IF pkg_create_failed(p, FALSE, garbage) THEN FALSE ELSE @]
            /\ log' = Log(p, PkgSpawnLog(p)
                              \o PkgFailureLog(p, garbage, standard_out[p],
                                               standard_err[p]))
            /\ pc' = [pc EXCEPT ![p] = "create_remove"]
            /\ UNCHANGED child
  /\ UNCHANGED <<inputs, key_dir, pkg_dir, tmpdir, ret, out, fsys,
                 standard_out, standard_err, wrote, rmfail>>

\* The packaging script terminates; g_spawn_sync returns TRUE and the builder
\* classifies the wait status.
lsc_user_pkg_create_wait(p) ==
  /\ pc[p] = "create_wait"
  /\ child[p] = "running"
  /\ \E status \in ToolStatuses, so \in ToolOutputs,
        se \in ToolOutputs,
        w \in {NotWritten} \cup {Written(c) : c \in ToolContents} :
       /\ child' = [child EXCEPT ![p] = "none"]
       /\ spawned' = [spawned EXCEPT ![p] = TRUE]
       /\ exit_status' = [exit_status EXCEPT ![p] = status]
       /\ standard_out' = [standard_out EXCEPT ![p] = so]
       /\ standard_err' = [standard_err EXCEPT ![p] = se]
       /\ wrote' = [wrote EXCEPT ![p] = w]
       /\ files' = IF w.written THEN FileWrite(files, pkg_path(p), w.bytes)
                   ELSE files
       /\ events' = IF w.written THEN Ev(p, E("toolwrite", pkg_path(p).dir))
                    ELSE events
       /\ IF pkg_create_failed(p, TRUE, status)
          THEN /\ classified' = [classified EXCEPT ![p] = "failure"]
               /\ success' = [success EXCEPT ![p] = FALSE]
               /\ log' = Log(p, PkgFailureLog(p, status, so, se))
          ELSE /\ classified' = [classified EXCEPT ![p] = "success"]
               /\ UNCHANGED <<success, log>>
  /\ pc' = [pc EXCEPT ![p] = "create_remove"]
  /\ UNCHANGED <<inputs, key_dir, pkg_dir, tmpdir, ret, out, dirs, nextDir,
                 calls, rmfail>>

\* lsc_user_rpm_create: gvm_file_remove_recurse (tmpdir) and return success;
\* the caller goes on to read the package or to rm_exit.
lsc_user_pkg_create_remove(p) ==
  /\ pc[p] = "create_remove"
  /\ \E ok \in LibraryOk :
       /\ RemoveRecurse(p, create_remove_dir(p), ok)
       /\ IF create_remove_failed(IF ok THEN 0 ELSE -1, success[p])
          THEN /\ success' = [success EXCEPT ![p] = FALSE]
               /\ log' = Log(p, << <<CreateName(p),
                                     ": failed to remove temporary directory ">>
                                     \o TmpdirText(p) >>)
          ELSE UNCHANGED <<success, log>>
  /\ pc' = [pc EXCEPT ![p] = lsc_user_pkg_recreate_next(success'[p])]
  /\ UNCHANGED <<inputs, key_dir, pkg_dir, tmpdir, ret, out, spawnvars, calls>>

\* Faulty variant: the file read is the key file, not the package.
lsc_user_pkg_recreate_read_KeyFile(p) ==
  /\ pc[p] = "pkg_read"
  /\ \E ioerr \in LibraryError :
       LET r == g_file_get_contents(public_key_path(p), ioerr)
       IN  /\ out' = [out EXCEPT ![p] = IF r.set THEN r ELSE @]
           /\ ret' = [ret EXCEPT ![p] = IF r.set THEN 0 ELSE @]
  /\ events' = Ev(p, E("read", public_key_path(p).dir))
  /\ pc' = [pc EXCEPT ![p] = "rm_exit"]
  /\ UNCHANGED <<inputs, key_dir, pkg_dir, tmpdir, success, fsys, spawnvars,
                 calls, log, rmfail>>

\* g_file_get_contents (rpm_path, rpm, rpm_size, &error) and ret = 0.
lsc_user_pkg_recreate_read(p) ==
  /\ pc[p] = "pkg_read"
  /\ \E ioerr \in LibraryError :
       LET r == g_file_get_contents(pkg_path(p), ioerr)
       IN  /\ out' = [out EXCEPT ![p] = IF r.set THEN r ELSE @]
           /\ ret' = [ret EXCEPT ![p] = IF r.set THEN 0 ELSE @]
  /\ events' = Ev(p, E("read", pkg_path(p).dir))
  /\ pc' = [pc EXCEPT ![p] = "rm_exit"]
  /\ UNCHANGED <<inputs, key_dir, pkg_dir, tmpdir, success, fsys, spawnvars,
                 calls, log, rmfail>>

\* rm_exit: gvm_file_remove_recurse (rpm_dir)
lsc_user_pkg_recreate_rm_exit(p) ==
  /\ pc[p] = "rm_exit"
  /\ \E ok \in LibraryOk : RemoveRecurse(p, pkg_dir[p], ok)
  /\ pc' = [pc EXCEPT ![p] = "free_exit"]
  /\ UNCHANGED <<inputs, key_dir, pkg_dir, tmpdir, success, ret, out,
                 spawnvars, calls, log>>

\* free_exit: gvm_file_remove_recurse (key_dir); return ret
lsc_user_pkg_recreate_free_exit(p) ==
  /\ pc[p] = "free_exit"
  /\ \E ok \in LibraryOk :
       /\ RemoveRecurse(p, key_dir[p], ok)
       /\ Return(p, ReturnAfterRemoval(ret[p], IF ok THEN 0 ELSE -1))
  /\ UNCHANGED <<inputs, key_dir, pkg_dir, tmpdir, success, out, spawnvars,
                 calls, log>>

lsc_user_pkg_recreate(p) ==
  \/ lsc_user_rpm_recreate_call(p)
  \/ lsc_user_deb_recreate_call(p)
  \/ lsc_user_pkg_recreate_mkdtemp_key(p)
  \/ lsc_user_pkg_recreate_write_key(p)
  \/ lsc_user_pkg_recreate_mkdtemp(p)
  \/ lsc_user_pkg_create_mkdtemp(p)
  \/ lsc_user_pkg_create_copy(p)
  \/ lsc_user_pkg_create_spawn(p)
  \/ lsc_user_pkg_create_wait(p)
  \/ lsc_user_pkg_create_remove(p)
  \/ lsc_user_pkg_recreate_read(p)
  \/ lsc_user_pkg_recreate_rm_exit(p)
  \/ lsc_user_pkg_recreate_free_exit(p)

(***************************************************************************)
(* Exe generation.                                                         *)
(***************************************************************************)
exe_path(p) == Path(pkg_dir[p], <<"p.nsis">>)
ExePathText(p) == <<"/tmp/exe_", ToString(pkg_dir[p]), "/p.nsis">>

\* lsc_user_exe_create: g_build_filename (g_path_get_dirname (to_filename),
\* "p.nsis")
nsis_script(to_filename) == Path(to_filename.dir, <<"p.nsis">>)
NsisScriptText(p) == <<"/tmp/exe_", ToString(pkg_dir[p]), "/p.nsis">>

\* Faulty variant: the double quotes of the argument are escaped for NSIS.
PrintS_Escaped(s) ==
  IF s.null THEN <<NullText>>
  ELSE [i \in 1..Len(s.chars) |->
          IF s.chars[i] = "\"" THEN "$\\\"" ELSE s.chars[i]]

\* "%s" of a string argument.
PrintS(s) == IF s.null THEN <<NullText>> ELSE s.chars

\* The text that create_nsis_script prints into the script file.
NsisScriptContent(package_name, user_name, pass) ==
  <<"#Installer filename\n",
    "outfile ">>
  \o
  package_name
  \o
  <<"\n\n",
    "# Set desktop as install directory\n",
    "installDir $DESKTOP\n\n",
    "# Put some text\n",
    "BrandingText \"GVM Local Security Checks User\"\n\n",
    "#\n# Default (installer) section.\n#\n",
    "section\n\n",
    "# Define output path\n",
    "setOutPath $INSTDIR\n\n",
    "# Uninstaller name\n",
    "writeUninstaller $INSTDIR\\openvas_lsc_remove_",
    user_name,
    ".exe\n\n",
    "# Create Thomas Rotters GetAdminGroupName.vb script\n",
    "ExecWait \"cmd /C Echo Set objWMIService = GetObject($\\\"winmgmts:\\\\.\\root\\cimv2$\\\") > $\\\"%temp%\\GetAdminGroupName.vbs$\\\" \"\n",
    "ExecWait \"cmd /C Echo Set colAccounts = objWMIService.ExecQuery ($\\\"Select * From Win32_Group Where SID = 'S-1-5-32-544'$\\\")  >> $\\\"%temp%\\GetAdminGroupName.vbs$\\\"\"\n",
    "ExecWait \"cmd /C Echo For Each objAccount in colAccounts >> $\\\"%temp%\\GetAdminGroupName.vbs$\\\"\"\n",
    "ExecWait \"cmd /C Echo Wscript.Echo objAccount.Name >> $\\\"%temp%\\GetAdminGroupName.vbs$\\\"\"\n",
    "ExecWait \"cmd /C Echo Next >> $\\\"%temp%\\GetAdminGroupName.vbs$\\\"\"\n",
    "ExecWait \"cmd /C cscript //nologo $\\\"%temp%\\GetAdminGroupName.vbs$\\\" > $\\\"%temp%\\AdminGroupName.txt$\\\"\"\n\n",
    "# Create batch script that installs the user\n",
    "ExecWait \"cmd /C Echo Set /P AdminGroupName= ^<$\\\"%temp%\\AdminGroupName.txt$\\\" > $\\\"%temp%\\AddUser.bat$\\\"\" \n",
    "ExecWait \"cmd /C Echo net user ",
    user_name,
    " ">>
  \o
  pass
  \o
  <<" /add /active:yes >> $\\\"%temp%\\AddUser.bat$\\\"\"\n",
    "ExecWait \"cmd /C Echo net localgroup %AdminGroupName% %COMPUTERNAME%\\",
    user_name,
    " /add >> $\\\"%temp%\\AddUser.bat$\\\"\"\n\n",
    "# Execute AddUser script\n",
    "ExecWait \"cmd /C $\\\"%temp%\\AddUser.bat$\\\"\"\n\n",
    "# Remove temporary files for localized admin group names\n",
    "ExecWait \"del $\\\"%temp%\\AdminGroupName.txt$\\\"\"\n",
    "ExecWait \"del $\\\"%temp%\\GetAdminGroupName.vbs$\\\"\"\n\n",
    "ExecWait \"del $\\\"%temp%\\AddUser.bat$\\\"\"\n\n",
    "# Display message that everything seems to be fine\n",
    "messageBox MB_OK \"A user has been added. An uninstaller is placed on your Desktop.\"\n\n",
    "# Default (install) section end\n",
    "sectionEnd\n\n",
    "#\n# Uninstaller section.\n#\n",
    "section \"Uninstall\"\n\n",
    "# Run cmd to remove user\n",
    "ExecWait \"net user ",
    user_name,
    " /delete\"\n\n",
    "# Unistaller should remove itself (from desktop/installdir)\n\n",
    "# Display message that everything seems to be fine\n",
    "messageBox MB_OK \"A user has been removed. You can now safely remove the uninstaller from your Desktop.\"\n\n",
    "# Uninstaller section end\n",
    "sectionEnd\n\n">>

execute_makensis_failed(sp, status) ==
  (sp = FALSE) \/ (WIFEXITED(status) = 0) \/ (WEXITSTATUS(status) # 0)

\* Faulty variant: the result of lsc_user_exe_create is ignored.
lsc_user_exe_recreate_next_Ignored(create_result) == "exe_read"

\* Where lsc_user_exe_recreate continues when lsc_user_exe_create has
\* returned.
lsc_user_exe_recreate_next(create_result) ==
  IF create_result # 0 THEN "exe_rm_exit" ELSE "exe_read"

makensis_cmd(p) == << <<"makensis">>, NsisScriptText(p) >>

lsc_user_exe_recreate_call(p) ==
  /\ pc[p] = "idle"
  /\ \E n \in RequestUsernames, pw \in RequestExePasswords :
       /\ op' = [op EXCEPT ![p] = "exe"]
       /\ name' = [name EXCEPT ![p] = n]
       /\ password' = [password EXCEPT ![p] = pw]
  /\ pc' = [pc EXCEPT ![p] = "exe_mkdtemp"]
  /\ UNCHANGED <<universe, public_key, maintainer, key_dir, pkg_dir, tmpdir,
                 success, ret, out, fsys, spawnvars, events, calls, log,
                 rmfail>>

\* mkdtemp (exe_dir)
lsc_user_exe_recreate_mkdtemp(p) ==
  /\ pc[p] = "exe_mkdtemp"
  /\ \E ok \in LibraryOk :
       IF ok
       THEN /\ pkg_dir' = [pkg_dir EXCEPT ![p] = mkdtemp]
            /\ dirs' = dirs \cup {mkdtemp}
            /\ nextDir' = nextDir + 1
            /\ events' = Ev(p, E("create", mkdtemp))
            /\ pc' = [pc EXCEPT ![p] = "nsis_script"]
            /\ UNCHANGED ret
       ELSE /\ Return(p, -1)
            /\ UNCHANGED <<pkg_dir, dirs, nextDir, events>>
  /\ UNCHANGED <<inputs, key_dir, tmpdir, success, out, files, spawnvars,
                 calls, log, rmfail>>

\* Faulty variant: the result of fclose is not looked at.
create_nsis_script_result_CloseIgnored(opened, closed) ==
  IF ~opened THEN 1 ELSE 0

\* The value create_nsis_script returns: 1 when fopen gives NULL, 1 when
\* fclose fails, 0 otherwise.
create_nsis_script_result(opened, closed) ==
  IF ~opened THEN 1 ELSE IF ~closed THEN 1 ELSE 0

\* lsc_user_exe_create up to execute_makensis: create_nsis_script opens the
\* script file, prints the script and closes the file.
create_nsis_script(p) ==
  /\ pc[p] = "nsis_script"
  /\ \E opened \in LibraryOk, closed \in LibraryOk :
       /\ events' = EvSeq(p, <<E("write", nsis_script(exe_path(p)).dir)>>
                          \o (IF ~opened
                              THEN <<E("fopen_failed", nsis_script(exe_path(p)).dir)>>
                              ELSE IF ~closed
                              THEN <<E("fclose_failed", nsis_script(exe_path(p)).dir)>>
                              ELSE <<>>))
       /\ files' = IF opened
                   THEN FileWrite(files, nsis_script(exe_path(p)),
                                  NsisScriptContent(ExePathText(p), name[p],
                                                    PrintS(password[p])))
                   ELSE files
       /\ IF create_nsis_script_result(opened, closed) # 0
          THEN /\ log' = Log(p, << <<"lsc_user_exe_create: Failed to create NSIS script">> >>)
               /\ pc' = [pc EXCEPT ![p] = "exe_rm_exit"]
          ELSE /\ pc' = [pc EXCEPT ![p] = "makensis_spawn"]
               /\ UNCHANGED log
  /\ UNCHANGED <<inputs, key_dir, pkg_dir, tmpdir, success, ret, out, dirs,
                 nextDir, spawnvars, calls, rmfail>>

\* Faulty variant: the child is started without waiting for it
\* (g_spawn_async), execute_makensis returns 0 at once.
execute_makensis_spawn_next_Async == "exe_read"

\* Where the caller is once g_spawn_sync has started the child: inside
\* g_spawn_sync, until the child terminates.
execute_makensis_spawn_next == "makensis_wait"

MakensisFailureLog(status, so, se) ==
  << <<"execute_makensis: failed to create the exe: ", ToString(status),
       " (WIF ", ToString(WIFEXITED(status)), ", WEX ",
       ToString(WEXITSTATUS(status)), ")">>,
     <<"execute_makensis: stdout: ", so>>,
     <<"execute_makensis: stderr: ", se>>,
     <<"lsc_user_exe_create: Failed to execute makensis">> >>

MakensisSpawnLog(p) ==
  << <<"--- executing makensis.">>,
     <<"execute_makensis: Spawning in ", "/tmp/exe_", ToString(pkg_dir[p]),
       ": ">> \o JoinArgs(makensis_cmd(p)) >>

\* execute_makensis: g_spawn_sync (dirname, cmd, ...) until the child runs,
\* and the failure branch when the spawn fails (exit_status is not
\* initialised).
execute_makensis_spawn(p) ==
  /\ pc[p] = "makensis_spawn"
  /\ calls' = [calls EXCEPT ![p] =
                 Append(@, [site |-> "execute_makensis",
                            cwd |-> nsis_script(exe_path(p)).dir,
                            argv |-> makensis_cmd(p)])]
  /\ events' = Ev(p, E("spawn", nsis_script(exe_path(p)).dir))
  /\ \E started \in LibraryOk :
       IF started
       THEN /\ child' = [child EXCEPT ![p] = "running"]
            /\ log' = Log(p, MakensisSpawnLog(p))
            /\ pc' = [pc EXCEPT ![p] = execute_makensis_spawn_next]
            /\ UNCHANGED <<spawned, exit_status, classified>>
       ELSE \E garbage \in ToolStatuses :
            /\ spawned' = [spawned EXCEPT ![p] = FALSE]
            /\ exit_status' = [exit_status EXCEPT ![p] = garbage]
            /\ classified' = [classified EXCEPT ![p] =
                 IF execute_makensis_failed(FALSE, garbage)
                 THEN "failure" ELSE "success"]
            /\ log' = Log(p, MakensisSpawnLog(p)
                              \o MakensisFailureLog(garbage, standard_out[p],
                                                    standard_err[p]))
            /\ pc' = [pc EXCEPT ![p] = lsc_user_exe_recreate_next(
                 IF execute_makensis_failed(FALSE, garbage) THEN -1 ELSE 0)]
            /\ UNCHANGED child
  /\ UNCHANGED <<inputs, key_dir, pkg_dir, tmpdir, success, ret, out, fsys,
                 standard_out, standard_err, wrote, rmfail>>

\* makensis terminates; it writes the installer to the outfile named in the
\* script, which is to_filename.
execute_makensis_wait(p) ==
  /\ pc[p] = "makensis_wait"
  /\ child[p] = "running"
  /\ \E status \in ToolStatuses, so \in ToolOutputs,
        se \in ToolOutputs,
        w \in {NotWritten} \cup {Written(c) : c \in ToolContents} :
       /\ child' = [child EXCEPT ![p] = "none"]
       /\ spawned' = [spawned EXCEPT ![p] = TRUE]
       /\ exit_status' = [exit_status EXCEPT ![p] = status]
       /\ standard_out' = [standard_out EXCEPT ![p] = so]
       /\ standard_err' = [standard_err EXCEPT ![p] = se]
       /\ wrote' = [wrote EXCEPT ![p] = w]
       /\ files' = IF w.written THEN FileWrite(files, exe_path(p), w.bytes)
                   ELSE files
       /\ events' = IF w.written THEN Ev(p, E("toolwrite", exe_path(p).dir))
                    ELSE events
       /\ IF execute_makensis_failed(TRUE, status)
          THEN /\ classified' = [classified EXCEPT ![p] = "failure"]
               /\ log' = Log(p, MakensisFailureLog(status, so, se))
               /\ pc' = [pc EXCEPT ![p] = lsc_user_exe_recreate_next(-1)]
          ELSE /\ classified' = [classified EXCEPT ![p] = "success"]
               /\ pc' = [pc EXCEPT ![p] = lsc_user_exe_recreate_next(0)]
               /\ UNCHANGED log
  /\ UNCHANGED <<inputs, key_dir, pkg_dir, tmpdir, success, ret, out, dirs,
                 nextDir, calls, rmfail>>

\* g_file_get_contents (exe_path, exe, exe_size, &error) and ret = 0.
lsc_user_exe_recreate_read(p) ==
  /\ pc[p] = "exe_read"
  /\ \E ioerr \in LibraryError :
       LET r == g_file_get_contents(exe_path(p), ioerr)
       IN  /\ out' = [out EXCEPT ![p] = IF r.set THEN r ELSE @]
           /\ ret' = [ret EXCEPT ![p] = IF r.set THEN 0 ELSE @]
  /\ events' = Ev(p, E("read", exe_path(p).dir))
  /\ pc' = [pc EXCEPT ![p] = "exe_rm_exit"]
  /\ UNCHANGED <<inputs, key_dir, pkg_dir, tmpdir, success, fsys, spawnvars,
                 calls, log, rmfail>>

\* rm_exit: gvm_file_remove_recurse (exe_dir); return ret
lsc_user_exe_recreate_rm_exit(p) ==
  /\ pc[p] = "exe_rm_exit"
  /\ \E ok \in LibraryOk :
       /\ RemoveRecurse(p, pkg_dir[p], ok)
       /\ Return(p, ReturnAfterRemoval(ret[p], IF ok THEN 0 ELSE -1))
  /\ UNCHANGED <<inputs, key_dir, pkg_dir, tmpdir, success, out, spawnvars,
                 calls, log>>

lsc_user_exe_recreate(p) ==
  \/ lsc_user_exe_recreate_call(p)
  \/ lsc_user_exe_recreate_mkdtemp(p)
  \/ create_nsis_script(p)
  \/ execute_makensis_spawn(p)
  \/ execute_makensis_wait(p)
  \/ lsc_user_exe_recreate_read(p)
  \/ lsc_user_exe_recreate_rm_exit(p)

Next ==
  \E p \in Procs :
    \/ lsc_user_keys_create(p)
    \/ lsc_user_pkg_recreate(p)
    \/ lsc_user_exe_recreate(p)

Spec == Init /\ [][Next]_vars

\* The steps of one caller.
Step(p) ==
  \/ lsc_user_keys_create(p)
  \/ lsc_user_pkg_recreate(p)
  \/ lsc_user_exe_recreate(p)

\* Every caller that can take a step eventually takes one: the thread of
\* the caller is scheduled, the library calls return, and a child that was
\* started terminates.
FairInit == InitWith({1}, "small")
FairSpec ==
  FairInit /\ [][Next]_vars /\ \A p \in Procs : WF_vars(Step(p))

\* Two callers whose steps interleave in every order.
ConcurrentInit == InitWith({1, 2}, "faultless")
ConcurrentSpec == ConcurrentInit /\ [][Next]_vars

(***************************************************************************)
(* Properties.                                                             *)
(***************************************************************************)
Done(p) == pc[p] = "done"
IsRecreate(p) == op[p] \in {"rpm", "deb", "exe"}
EventsOf(p, kind) ==
  {events[p][i].dir : i \in {j \in DOMAIN events[p] : events[p][j].ev = kind}}
\* Directories made by mkdtemp during the call, directories handed to
\* gvm_file_remove_recurse during the call.
Created(p) == EventsOf(p, "create")
PassedToRemoval(p) == EventsOf(p, "remove")
\* The external tool ran and terminated normally with exit code 0.
ExitedZero(p) ==
  /\ classified[p] # "none"
  /\ spawned[p]
  /\ exit_status[p] % 128 = 0
  /\ (exit_status[p] \div 256) % 256 = 0

\* C1: when an operation has returned and every attempted removal succeeded,
\* no scratch directory created during the call exists any more.
C1_NoWorkspaceOutlivesCall ==
  \A p \in Procs :
    (Done(p) /\ ~rmfail[p]) => (Created(p) \cap dirs = {})

\* C2: when the external tool exited with code 0 and did not write its
\* destination file, the operation returns failure.
C2_MissingOutputIsFailure ==
  \A p \in Procs :
    (Done(p) /\ ExitedZero(p) /\ ~wrote[p].written) => ret[p] = -1

C4_PassphrasePrecondition ==
  \A p \in Procs :
    (Done(p) /\ op[p] = "keys") =>
      /\ (password[p].null \/ Len(password[p].chars) <= 4) =>
           (ret[p] = -1 /\ Len(calls[p]) = 0)
      /\ (~password[p].null /\ Len(password[p].chars) >= 5 /\ key_dir[p] # 0) =>
           (Len(calls[p]) = 1 /\ calls[p][1].site = "create_ssh_key")

C4_Witness ==
  \E p \in Procs :
    Done(p) /\ op[p] = "keys" /\ key_dir[p] # 0 /\ ~password[p].null
      /\ Len(password[p].chars) = 4 /\ ret[p] = -1 /\ calls[p] = <<>>

\* C5: at every invocation site the invocation is classified as success
\* exactly when the spawn succeeded, the child terminated normally and its
\* exit code is 0, whatever was captured on standard output and standard
\* error.
C5_ClassificationIsExitedZero ==
  \A p \in Procs :
    classified[p] # "none" =>
      /\ classified[p] = "success" <=>
           (spawned[p] /\ exit_status[p] % 128 = 0
              /\ (exit_status[p] \div 256) % 256 = 0)
      /\ classified[p] \in {"success", "failure"}

C5_Witness ==
  \E p \in Procs :
    classified[p] = "failure" /\ spawned[p] /\ exit_status[p] = 9
      /\ standard_out[p] = "text" /\ op[p] = "rpm"

\* C6: when the invocation of a recreate operation is classified as failure,
\* the operation returns failure, does not read the destination file, does
\* not set the output parameters, and hands every directory it created to
\* removal.
C6_ToolFailureIsFailure ==
  \A p \in Procs :
    (Done(p) /\ IsRecreate(p) /\ classified[p] = "failure") =>
      /\ ret[p] = -1
      /\ ~out[p].set
      /\ pkg_dir[p] \notin EventsOf(p, "read")
      /\ Created(p) \subseteq PassedToRemoval(p)
      /\ ~rmfail[p] => (Created(p) \cap dirs = {})

C6_Witness ==
  \E p \in Procs :
    Done(p) /\ IsRecreate(p) /\ classified[p] = "failure"
      /\ spawned[p] /\ exit_status[p] = 256 /\ wrote[p].written

\* C7: within an operation, a directory is created before it is written (by
\* the operation or by its tool), read, given to a tool or removed; no file of a directory is read after the removal
\* of the directory; and when the operation succeeds the artifact was read
\* before its directory was removed.
C7_Ordering ==
  \A p \in Procs :
    /\ \A j \in DOMAIN events[p] :
         /\ events[p][j].ev \in {"write", "toolwrite", "read", "spawn", "remove"} =>
              \E i \in 1..(j - 1) : events[p][i] = E("create", events[p][j].dir)
         /\ events[p][j].ev = "read" =>
              ~ \E i \in 1..(j - 1) : events[p][i] = E("remove", events[p][j].dir)
    /\ (Done(p) /\ ret[p] = 0) =>
         \E i \in DOMAIN events[p] :
           /\ events[p][i].ev = "read"
           /\ \E j \in (i + 1)..Len(events[p]) :
                events[p][j] = E("remove", events[p][i].dir)

C7_Witness ==
  \E p \in Procs :
    Done(p) /\ ret[p] = 0 /\ op[p] = "rpm" /\ Cardinality(Created(p)) = 3

\* C8: when lsc_user_rpm_recreate or lsc_user_deb_recreate has returned,
\* the key directory and the package directory, each if it was created, have
\* been handed to removal, and nothing else than a created directory has.
C8_BothDirectoriesReleased ==
  \A p \in Procs :
    (Done(p) /\ op[p] \in {"rpm", "deb"}) =>
      /\ key_dir[p] # 0 => key_dir[p] \in PassedToRemoval(p)
      /\ pkg_dir[p] # 0 => pkg_dir[p] \in PassedToRemoval(p)
      /\ PassedToRemoval(p) \subseteq Created(p)

C8_Witness ==
  \E p \in Procs :
    Done(p) /\ op[p] \in {"rpm", "deb"} /\ key_dir[p] # 0 /\ pkg_dir[p] = 0
      /\ PassedToRemoval(p) = {key_dir[p]}

\* C9: when a recreate operation returns success and the external tool wrote
\* a non-empty file at the destination path, the bytes and the length
\* returned are those of that file.
C9_RoundTrip ==
  \A p \in Procs :
    (Done(p) /\ IsRecreate(p) /\ ret[p] = 0 /\ wrote[p].written
       /\ wrote[p].bytes # <<>>) =>
      /\ out[p].bytes = wrote[p].bytes
      /\ out[p].size = Len(wrote[p].bytes)

C9_Witness ==
  \E p \in Procs :
    Done(p) /\ op[p] = "deb" /\ ret[p] = 0 /\ wrote[p].written
      /\ out[p].bytes = <<"x", "y">> /\ out[p].size = 2

\* C10: no log entry written during key generation contains the passphrase.
C10_NoPassphraseInLog ==
  \A p \in Procs :
    (op[p] = "keys" /\ ~password[p].null /\ password[p].chars # <<>>) =>
      \A i \in DOMAIN log[p] : ~Contains(log[p][i], password[p].chars)

\* The files of the directories D, with their contents.
FilesIn(D) == [x \in {y \in DOMAIN files : y.dir \in D} |-> files[x]]

\* C11: with callers whose steps interleave, every directory that a caller
\* writes, reads, hands to a tool or removes is one that it created; no
\* directory is created by two callers; a step of one caller changes
\* neither the directories created by another caller nor the files in
\* them; and, where no library call fails, a caller returns what its own
\* tool determines: success exactly when its tool was classified as
\* success and left its destination file (or, for EXE, the script is
\* there), with the bytes its own tool wrote.
C11_Isolation ==
  /\ [](\A p \in Procs :
          /\ \A i \in DOMAIN events[p] : events[p][i].dir \in Created(p)
          /\ \A q \in Procs \ {p} : Created(p) \cap Created(q) = {}
          /\ (Done(p) /\ universe = "faultless") =>
               /\ ret[p] = 0 <=>
                    (classified[p] = "success"
                       /\ (wrote[p].written \/ op[p] = "exe"))
               /\ ret[p] = 0 =>
                    out[p].bytes =
                      (IF wrote[p].written THEN wrote[p].bytes
                       ELSE NsisScriptContent(ExePathText(p), name[p],
                                              PrintS(password[p]))))
  /\ [][\A p \in Procs :
          events'[p] = events[p] =>
            /\ FilesIn(Created(p))' = FilesIn(Created(p))
            /\ (dirs \cap Created(p))' = dirs \cap Created(p)]_vars

C11_Witness ==
  /\ op[1] = "rpm" /\ op[2] = "deb" /\ Done(1) /\ Done(2)
  /\ ret[1] = 0 /\ ret[2] = 0
  /\ out[1].bytes = <<"x">> /\ out[2].bytes = <<"y">>
  /\ key_dir[1] < key_dir[2] /\ key_dir[2] < pkg_dir[1]
  /\ pkg_dir[1] < tmpdir[2] /\ tmpdir[2] < tmpdir[1]

\* C12: an operation requests at most one external invocation per call: an
\* invocation classified as failure is not followed by another one, and
\* while the child of an operation runs, that invocation is its only one.
C12_AtMostOneInvocation ==
  \A p \in Procs :
    /\ Len(calls[p]) <= 1
    /\ child[p] = "running" => Len(calls[p]) = 1
    /\ classified[p] # "none" => Len(calls[p]) = 1

C12_Witness ==
  \E p \in Procs :
    Done(p) /\ op[p] = "keys" /\ classified[p] = "failure"
      /\ Len(calls[p]) = 1 /\ ret[p] = -1

\* C13: the packaging script of lsc_user_rpm_create / lsc_user_deb_create is
\* started in the builder's own directory with the arguments username,
\* staged key path (<directory>/<username>.pub), directory, destination
\* path and, for DEB only, maintainer; while the script runs the staged file
\* holds the public key the caller supplied.
C13_BuilderInvocation ==
  \A p \in Procs :
    (op[p] \in {"rpm", "deb"} /\ calls[p] # <<>>) =>
      LET c == calls[p][1]
          prefix == IF op[p] = "rpm" THEN "/tmp/lsc_user_rpm_create_"
                    ELSE "/tmp/lsc_user_deb_create_"
          destination ==
            IF op[p] = "rpm" THEN <<"/tmp/rpm_", ToString(pkg_dir[p]), "/p.rpm">>
            ELSE <<"/tmp/deb_", ToString(pkg_dir[p]), "/p.deb">>
      IN  /\ c.cwd \in Created(p)
          /\ c.cwd \notin {key_dir[p], pkg_dir[p]}
          /\ Len(c.argv) = (IF op[p] = "rpm" THEN 5 ELSE 6)
          /\ c.argv[2] = <<name[p]>>
          /\ c.argv[3] = <<prefix, ToString(c.cwd), "/", name[p], ".pub">>
          /\ c.argv[4] = <<prefix, ToString(c.cwd)>>
          /\ c.argv[5] = destination
          /\ op[p] = "deb" => c.argv[6] = <<maintainer[p]>>
          /\ pc[p] \in {"create_wait", "create_remove"} =>
               /\ FileExists(Path(c.cwd, <<name[p], ".pub">>))
               /\ files[Path(c.cwd, <<name[p], ".pub">>)] = public_key[p]

C13_Witness ==
  \E p \in Procs :
    /\ op[p] = "deb" /\ pc[p] = "create_wait" /\ name[p] = "alice"
    /\ public_key[p] # <<>> /\ Len(calls[p][1].argv) = 6
    /\ files[Path(tmpdir[p], <<"alice", ".pub">>)] = public_key[p]

\* C14: whenever the key generator is invoked, its argument vector holds the
\* passphrase, character for character, as the argument after -P and the
\* private key path as the argument after -f.
C14_PassphraseArgumentVerbatim ==
  \A p \in Procs :
    (op[p] = "keys" /\ calls[p] # <<>>) =>
      LET argv == calls[p][1].argv
      IN  /\ \E i \in 1..(Len(argv) - 1) :
               argv[i] = <<"-P">> /\ argv[i + 1] = password[p].chars
          /\ \E i \in 1..(Len(argv) - 1) :
               argv[i] = <<"-f">>
                 /\ argv[i + 1] = <<"/tmp/openvas_key_", ToString(key_dir[p]), "/key">>

\* C15: a recreate operation called with an empty username, with an empty
\* public key (RPM, DEB) or with a password shorter than 5 characters (EXE)
\* returns failure and has invoked no external tool.
C15_RecreateRejectsBadRequest ==
  \A p \in Procs :
    /\ (op[p] \in {"rpm", "deb"} /\ (name[p] = "" \/ public_key[p] = <<>>)) =>
         (calls[p] = <<>> /\ (Done(p) => ret[p] = -1))
    /\ (op[p] = "exe" /\ (name[p] = "" \/ password[p].null
                            \/ Len(password[p].chars) < 5)) =>
         (calls[p] = <<>> /\ (Done(p) => ret[p] = -1))

\* C16: under FairSpec every operation that was called returns, with 0 and
\* the artifact set or with -1 and no artifact; and as long as the child
\* of an operation runs, the operation stays inside its spawn call: it
\* does not read and does not remove.
C16_Termination ==
  /\ \A p \in Procs : (pc[p] \notin {"off", "idle"}) ~> Done(p)
  /\ [](\A p \in Procs :
          /\ Done(p) => \/ (ret[p] = 0 /\ out[p].set)
                         \/ (ret[p] = -1 /\ ~out[p].set)
          /\ child[p] = "running" =>
                pc[p] \in {"ssh_key_wait", "create_wait", "makensis_wait"})
  /\ [][\A p \in Procs :
          (child[p] = "running" /\ child'[p] = "running") =>
            (EventsOf(p, "read")' = EventsOf(p, "read")
               /\ EventsOf(p, "remove")' = EventsOf(p, "remove"))]_vars

C16_Witness ==
  \E p \in Procs :
    Done(p) /\ op[p] = "exe" /\ spawned[p] /\ child[p] = "none"
      /\ ret[p] = 0 /\ Len(calls[p]) = 1

\* C17: when lsc_user_rpm_create / lsc_user_deb_create has removed its
\* directory and returns, its result is success exactly when the packaging
\* script was classified as success and that removal succeeded; on a failure
\* result the operation goes to rm_exit, returns failure and never reads the
\* package.
C17_BuilderResult ==
  \A p \in Procs :
    op[p] \in {"rpm", "deb"} =>
      /\ (events[p] # <<>> /\ tmpdir[p] # 0
            /\ events[p][Len(events[p])] = E("remove", tmpdir[p])) =>
           /\ success[p] <=> (classified[p] = "success" /\ ~rmfail[p])
           /\ pc[p] = (IF success[p] THEN "pkg_read" ELSE "rm_exit")
      /\ pc[p] = "pkg_read" => (success[p] /\ classified[p] = "success")
      /\ (Done(p) /\ ~success[p]) =>
           (ret[p] = -1 /\ ~out[p].set /\ pkg_dir[p] \notin EventsOf(p, "read"))

C17_Witness ==
  \E p \in Procs :
    Done(p) /\ op[p] = "rpm" /\ classified[p] = "success" /\ wrote[p].written
      /\ ~success[p] /\ rmfail[p] /\ ret[p] = -1

\* C18: once an operation has read its artifact, the result is success and
\* the artifact stays what was read, whatever the removals that follow
\* report.
C18_RemovalFailureAfterRead ==
  /\ [](\A p \in Procs : out[p].set => ret[p] = 0)
  /\ [][\A p \in Procs : out[p].set => out'[p] = out[p]]_vars

C18_Witness ==
  \E p \in Procs :
    Done(p) /\ op[p] = "rpm" /\ out[p].set /\ out[p].bytes = <<"x">>
      /\ rmfail[p] /\ ret[p] = 0

\* C19: in lsc_user_exe_recreate the script path and the destination path
\* are different paths of the same directory, the file at the destination
\* path does not exist before makensis has terminated, and an installer
\* returned with success was written by makensis.
C19_ScriptBesideDestination ==
  \A p \in Procs :
    (op[p] = "exe" /\ pkg_dir[p] # 0) =>
      /\ nsis_script(exe_path(p)).dir = exe_path(p).dir
      /\ nsis_script(exe_path(p)) # exe_path(p)
      /\ pc[p] \in {"makensis_spawn", "makensis_wait"} => ~FileExists(exe_path(p))
      /\ (Done(p) /\ ret[p] = 0) =>
           (wrote[p].written /\ out[p].bytes = wrote[p].bytes)

\* C20: makensis is invoked only when the script file was opened, written
\* and closed without error, with the script path as its only argument and
\* the directory of the script as working directory; when fopen or fclose
\* fails the operation returns failure, has invoked nothing and has handed
\* its directory to removal.
C20_CompilerAfterScript ==
  \A p \in Procs :
    op[p] = "exe" =>
      /\ calls[p] # <<>> =>
           /\ EventsOf(p, "fopen_failed") = {}
           /\ EventsOf(p, "fclose_failed") = {}
           /\ calls[p][1].site = "execute_makensis"
           /\ calls[p][1].argv =
                << <<"makensis">>,
                   <<"/tmp/exe_", ToString(pkg_dir[p]), "/p.nsis">> >>
           /\ calls[p][1].cwd = pkg_dir[p]
           /\ pkg_dir[p] \in Created(p)
      /\ pc[p] \in {"makensis_spawn", "makensis_wait"} =>
           /\ FileExists(Path(pkg_dir[p], <<"p.nsis">>))
           /\ files[Path(pkg_dir[p], <<"p.nsis">>)] =
                NsisScriptContent(ExePathText(p), name[p], PrintS(password[p]))
      /\ (Done(p) /\ EventsOf(p, "fopen_failed") \cup EventsOf(p, "fclose_failed") # {}) =>
           /\ ret[p] = -1
           /\ calls[p] = <<>>
           /\ pkg_dir[p] \in PassedToRemoval(p)

C20_Witness ==
  \E p \in Procs :
    Done(p) /\ op[p] = "exe" /\ EventsOf(p, "fclose_failed") # {}
      /\ ret[p] = -1 /\ calls[p] = <<>> /\ PassedToRemoval(p) = {pkg_dir[p]}

\* The mkdtemp calls of a caller that made a directory.
CreateEvents(p) == {i \in DOMAIN events[p] : events[p][i].ev = "create"}

\* C21 as stated: no operation creates more than two scratch directories
\* per call, the directories of the builders included.
C21_AtMostTwoDirectories ==
  \A p \in Procs : Cardinality(CreateEvents(p)) <= 2

\* C21 as amended: key generation and EXE create at most one directory per
\* call; RPM and DEB create at most three: the key directory, the package
\* directory and the directory of the builder, each at most once.
C21_DirectoriesPerCall ==
  \A p \in Procs :
    /\ op[p] \in {"keys", "exe"} => Cardinality(CreateEvents(p)) <= 1
    /\ op[p] \in {"rpm", "deb"} => Cardinality(CreateEvents(p)) <= 3
    /\ Cardinality(CreateEvents(p)) = Cardinality(Created(p))
    /\ Created(p) = {key_dir[p], pkg_dir[p], tmpdir[p]} \ {0}
    /\ op[p] \in {"keys"} => pkg_dir[p] = 0 /\ tmpdir[p] = 0
    /\ op[p] \in {"exe"} => key_dir[p] = 0 /\ tmpdir[p] = 0

C21_Witness ==
  \E p \in Procs :
    Done(p) /\ op[p] = "rpm" /\ Cardinality(CreateEvents(p)) = 3
      /\ Created(p) = {key_dir[p], pkg_dir[p], tmpdir[p]} /\ tmpdir[p] # 0

\* The number of places at which s occurs in t as a contiguous part.
Occurrences(t, s) ==
  Cardinality({i \in 0..(Len(t) - Len(s)) :
                 \A k \in 1..Len(s) : t[i + k] = s[k]})

\* The script file as create_nsis_script left it, before makensis runs.
ScriptWritten(p) ==
  /\ op[p] = "exe"
  /\ pc[p] \in {"makensis_spawn", "makensis_wait"}
  /\ FileExists(Path(pkg_dir[p], <<"p.nsis">>))

\* C22 as stated: the script holds the package name once, the username
\* three times and the password once, each as it was given.
C22_UsernameThreeTimes ==
  \A p \in Procs :
    ScriptWritten(p) =>
      LET script == files[Path(pkg_dir[p], <<"p.nsis">>)]
      IN  /\ Occurrences(script, <<"/tmp/exe_", ToString(pkg_dir[p]), "/p.nsis">>) = 1
          /\ Occurrences(script, <<name[p]>>) = 3
          /\ (~password[p].null /\ password[p].chars # <<>>) =>
               Occurrences(script, password[p].chars) = 1

\* C22 as amended: the script holds the package name once, the username
\* four times and the password once, each character for character as it
\* was given (a NULL password as the text that "%s" prints for it); the
\* rest of the script is the same for every username and password.
C22_ScriptSubstitutions ==
  \A p \in Procs :
    ScriptWritten(p) =>
      LET script == files[Path(pkg_dir[p], <<"p.nsis">>)]
          pass == IF password[p].null THEN <<"(null)">> ELSE password[p].chars
      IN  /\ Occurrences(script, <<"/tmp/exe_", ToString(pkg_dir[p]), "/p.nsis">>) = 1
          /\ Occurrences(script, <<name[p]>>) = 4
          /\ pass # <<>> => Occurrences(script, pass) = 1
          /\ Len(script) = Len(NsisScriptContent(<<>>, "", <<>>)) + 3 + Len(pass)

C22_Witness ==
  \E p \in Procs :
    /\ ScriptWritten(p) /\ name[p] = "alice"
    /\ password[p] = Str(<<"a", "\"", "a", "\"", "a">>)
    /\ Occurrences(files[Path(pkg_dir[p], <<"p.nsis">>)], <<"alice">>) = 4
    /\ Occurrences(files[Path(pkg_dir[p], <<"p.nsis">>)], password[p].chars) = 1

\* C23: gvm_file_remove_recurse is called at most once for a directory, and
\* only for a directory that mkdtemp has made before: never for a template
\* that mkdtemp did not expand (directory 0).
C23_RemovalOncePerCreated ==
  \A p \in Procs :
    \A i \in DOMAIN events[p] :
      events[p][i].ev = "remove" =>
        /\ events[p][i].dir # 0
        /\ \E j \in 1..(i - 1) : events[p][j] = E("create", events[p][i].dir)
        /\ \A j \in DOMAIN events[p] \ {i} : events[p][j] # events[p][i]

C23_Witness ==
  \E p \in Procs :
    /\ Done(p) /\ op[p] = "rpm" /\ key_dir[p] # 0 /\ pkg_dir[p] # 0
    /\ tmpdir[p] = 0 /\ rmfail[p]
    /\ Cardinality({i \in DOMAIN events[p] : events[p][i].ev = "remove"}) = 2
    /\ PassedToRemoval(p) = {key_dir[p], pkg_dir[p]}

====
